---- MODULE Spec2Model ----
(***************************************************************************)
(* Model of the numerical core of mortgage_calculator: LoanParams          *)
(* validation (models.py), the amortization engine and loan analysis       *)
(* (calculator.py), the institution comparison and breakeven               *)
(* (comparison.py) and the interest deduction (tax.py).                    *)
(*                                                                         *)
(* Arithmetic.  The code computes with Python floats and rounds recorded   *)
(* figures with round(x, 2).  The model computes with exact integers:      *)
(*   - money given to or recorded by the program is counted in quanta of   *)
(*     1/Sub ore (1 DKK = 100 ore), so that loan amounts that are not a    *)
(*     whole number of ore exist as inputs;                                *)
(*   - unrounded intermediate amounts (interest, fee, principal, payment)  *)
(*     are counted in fine units, RateDen fine units to the quantum, which *)
(*     makes balance * annual_rate / 12 exact for the 4-decimal rates of   *)
(*     the rate tables;                                                    *)
(*   - annual rates are counted in units of 0.0001.                        *)
(* round(x, 2) is round-half-to-even on the exact value, as Python's is.   *)
(* Where the exact value lies midway between two ore the float's own       *)
(* representation error decides the direction in Python; the model rounds  *)
(* such a value to the even ore, and no property stated here depends on    *)
(* the direction.                                                          *)
(*                                                                         *)
(* Loops of the code are evaluated in two halves (ScheduleLoop,            *)
(* GrowthLoop, MulLoop): the result is that of running the iterations in   *)
(* order.                                                                  *)
(***************************************************************************)
EXTENDS Integers, Sequences, FiniteSets, TLC

VARIABLES
    call,    \* the caller's position: "start", or the entry point called last
    args,    \* the arguments it was called with
    held,    \* <<p>> when the caller holds the LoanParams object p, else << >>
    raised,  \* the exception the call raised, "none" if it returned
    ret,     \* <<v>> when the call returned v, << >> when it raised
    window   \* the MortgageWindow: its stored results, export action and bars

vars == <<call, args, held, raised, ret, window>>

\* Quanta per ore: the resolution of the money inputs.
Sub == 4

\* Largest loan term, in years, that the inputs are drawn from.
MaxTerm == 2

Ore == Sub
DKK == 100 * Sub

\* annual_rate / 12 with annual rates in units of 0.0001.
RateDen == 12 * 10000

\* Resolution of (1 + r)^n - 1: RateDen * GMul units to 1.
GMul == 4 * 10000

None == "None"

(***************************************************************************)
(* data/rates.py                                                           *)
(***************************************************************************)
BOND_RATES ==
    ("fixed_30y" :> 400) @@ ("F1" :> 233) @@ ("F3" :> 242) @@ ("F5" :> 266)

LOAN_TYPES == <<"fixed_30y", "F1", "F3", "F5">>

BIDRAGSSATS ==
    ("Totalkredit" :>
        [bracket_0_40  |-> [annuity |-> 40, io_premium |-> 4],
         bracket_40_60 |-> [annuity |-> 65, io_premium |-> 6],
         bracket_60_80 |-> [annuity |-> 90, io_premium |-> 10]]) @@
    ("Nykredit" :>
        [bracket_0_40  |-> [annuity |-> 44, io_premium |-> 5],
         bracket_40_60 |-> [annuity |-> 70, io_premium |-> 7],
         bracket_60_80 |-> [annuity |-> 95, io_premium |-> 11]]) @@
    ("Realkredit Danmark" :>
        [bracket_0_40  |-> [annuity |-> 42, io_premium |-> 4],
         bracket_40_60 |-> [annuity |-> 68, io_premium |-> 6],
         bracket_60_80 |-> [annuity |-> 92, io_premium |-> 10]]) @@
    ("BRFkredit" :>
        [bracket_0_40  |-> [annuity |-> 45, io_premium |-> 5],
         bracket_40_60 |-> [annuity |-> 72, io_premium |-> 7],
         bracket_60_80 |-> [annuity |-> 97, io_premium |-> 12]]) @@
    ("Nordea Kredit" :>
        [bracket_0_40  |-> [annuity |-> 43, io_premium |-> 5],
         bracket_40_60 |-> [annuity |-> 69, io_premium |-> 7],
         bracket_60_80 |-> [annuity |-> 93, io_premium |-> 11]])

\* list(BIDRAGSSATS.keys()): the keys in insertion order.
INSTITUTIONS ==
    <<"Totalkredit", "Nykredit", "Realkredit Danmark", "BRFkredit", "Nordea Kredit">>

\* One-time costs: the flat amounts in DKK, the rates in units of 0.0001.
TINGLYSNING_FLAT_DKK == 1850

TINGLYSNING_RATE == 145

ESTABLISHMENT_FEE_DKK == 5000

KURSKAERING_RATE == 50

\* Denominator of the 4-decimal rates.
RateUnit == 100 * 100

\* Rentefradrag: the rates in percent, the threshold in DKK.
RENTEFRADRAG_RATE_LOW == 33

RENTEFRADRAG_RATE_HIGH == 25

RENTEFRADRAG_THRESHOLD_DKK == 50000

Range(s) == {s[i] : i \in DOMAIN s}

(***************************************************************************)
(* Exact arithmetic helpers                                                *)
(***************************************************************************)
Abs(x) == IF x < 0 THEN -x ELSE x

\* One digit of the long multiplication of MulDivRem, b being taken as 31
\* binary digits: `acc` holds the number k of leading digits of b done and
\* q, r with a * (those digits) = q * c + r; the step doubles it and adds a
\* when the next digit is 1.
MulStep(a, b, c, acc) ==
    LET bit == (b \div 2 ^ (30 - acc.k)) % 2
        q2  == IF 2 * acc.r >= c THEN 2 * acc.q + 1 ELSE 2 * acc.q
        r2  == IF 2 * acc.r >= c THEN 2 * acc.r - c ELSE 2 * acc.r
        q3  == q2 + (a \div c)
        r3  == r2 + (a % c)
    IN  IF bit = 0 THEN [k |-> acc.k + 1, q |-> q2, r |-> r2]
        ELSE IF r3 >= c THEN [k |-> acc.k + 1, q |-> q3 + 1, r |-> r3 - c]
        ELSE [k |-> acc.k + 1, q |-> q3, r |-> r3]

\* The digits from the state `acc` up to digit `last`, in two halves.
RECURSIVE MulLoop(_, _, _, _, _)
MulLoop(a, b, c, acc, last) ==
    IF acc.k >= last THEN acc
    ELSE IF acc.k + 1 = last THEN MulStep(a, b, c, acc)
    ELSE MulLoop(a, b, c, MulLoop(a, b, c, acc, (acc.k + last) \div 2), last)

\* [q, r] with a * b = q * c + r and 0 <= r < c, for a, b >= 0 and
\* 0 < c < 2^30, without forming the product a * b.
MulDivRem(a, b, c) == MulLoop(a, b, c, [k |-> 0, q |-> 0, r |-> 0], 31)

\* round(x, 2) of the value w + f / den quanta (0 <= f < den), in quanta:
\* the nearest whole number of ore, ties to the even one.
RoundFrac(w, f, den) ==
    LET ore  == w \div Ore
        rest == (w % Ore) * den + f
        half == Ore * den
    IN  IF 2 * rest < half THEN ore * Ore
        ELSE IF 2 * rest > half THEN (ore + 1) * Ore
        ELSE IF ore % 2 = 0 THEN ore * Ore
        ELSE (ore + 1) * Ore

\* round(x, 2) of w quanta and f fine units.
RoundParts(w, f) == RoundFrac(w, f, RateDen)

\* round(x, 2) of an amount x in fine units, in quanta.
Round2(x) == RoundParts(x \div RateDen, x % RateDen)

(***************************************************************************)
(* models.py: LoanParams                                                   *)
(***************************************************************************)
\* loan_amount_dkk / property_value_dkk > num / den, for property_value_dkk
\* other than 0 (the division raises on 0) and den > 0.
RatioGT(la, pv, num, den) ==
    IF pv > 0 THEN la * den > num * pv ELSE la * den < num * pv

\* loan_amount_dkk / property_value_dkk >= num / den, likewise.
RatioGE(la, pv, num, den) ==
    IF pv > 0 THEN la * den >= num * pv ELSE la * den <= num * pv

\* The field validators; pydantic runs them all and raises one
\* ValidationError if any of them raised ValueError.
FieldErrors(lt, ty, inst) ==
    \/ lt \notin Range(LOAN_TYPES)
    \/ inst \notin Range(INSTITUTIONS)
    \/ ty <= 0

\* validate_ltv: the exception it raises, "none" if it returns.
validate_ltv(pv, la) ==
    IF pv = 0 THEN "ZeroDivisionError"
    ELSE IF RatioGT(la, pv, 4, 5) THEN "ValidationError"
    ELSE "none"

\* validate_io_years without its second check.
validate_io_years_upper(ty, io) ==
    IF io >= ty THEN "ValidationError" ELSE "none"

\* validate_io_years: the exception it raises, "none" if it returns.
validate_io_years(ty, io) ==
    IF io >= ty THEN "ValidationError"
    ELSE IF io < 0 THEN "ValidationError"
    ELSE "none"

\* The exception LoanParams(...) raises, "none" if it constructs the object:
\* field validators first, then the model validators in definition order.
LoanParamsError(pv, la, lt, ty, io, inst) ==
    IF FieldErrors(lt, ty, inst) THEN "ValidationError"
    ELSE IF validate_ltv(pv, la) # "none" THEN validate_ltv(pv, la)
    ELSE validate_io_years(ty, io)

\* The object LoanParams(...) constructs: its six declared fields.
LoanParams(pv, la, lt, ty, io, inst) ==
    [property_value_dkk |-> pv,
     loan_amount_dkk    |-> la,
     loan_type          |-> lt,
     term_years         |-> ty,
     io_years           |-> io,
     institution        |-> inst]

(***************************************************************************)
(* calculator.py                                                           *)
(***************************************************************************)
\* The ltv property of LoanParams: loan_amount_dkk / property_value_dkk,
\* kept as the exact ratio.
ltv(params) ==
    [num |-> params.loan_amount_dkk, den |-> params.property_value_dkk]

\* get_ltv_bracket with each boundary in the lower bracket.
get_ltv_bracket_exclusive(l) ==
    IF RatioGT(l.num, l.den, 3, 5) THEN "bracket_60_80"
    ELSE IF RatioGT(l.num, l.den, 2, 5) THEN "bracket_40_60"
    ELSE "bracket_0_40"

get_ltv_bracket(l) ==
    IF RatioGE(l.num, l.den, 3, 5) THEN "bracket_60_80"
    ELSE IF RatioGE(l.num, l.den, 2, 5) THEN "bracket_40_60"
    ELSE "bracket_0_40"

\* get_effective_bidragssats without the io_premium.
get_effective_bidragssats_base(institution, l, is_io) ==
    BIDRAGSSATS[institution][get_ltv_bracket(l)].annuity

get_effective_bidragssats(institution, l, is_io) ==
    LET entry == BIDRAGSSATS[institution][get_ltv_bracket(l)]
    IN  IF is_io THEN entry.annuity + entry.io_premium ELSE entry.annuity

\* x * rate / RateDen rounded to the nearest unit, for x >= 0.
MulRate(x, rate) ==
    (x \div RateDen) * rate + ((x % RateDen) * rate + RateDen \div 2) \div RateDen

\* (1 + r) ** n - 1 for r = rate / RateDen by repeated multiplication, in
\* units of 1 / (RateDen * GMul): `pow` holds the exponent reached and the
\* value for it.  The multiplications up to n are done in two halves, which
\* keeps the evaluation shallow.
RECURSIVE GrowthLoop(_, _, _)
GrowthLoop(rate, pow, n) ==
    IF pow.exp >= n THEN pow
    ELSE IF pow.exp + 1 = n
         THEN [exp |-> n, g |-> pow.g + rate * GMul + MulRate(pow.g, rate)]
    ELSE GrowthLoop(rate, GrowthLoop(rate, pow, (pow.exp + n) \div 2), n)

Growth(rate, n) == GrowthLoop(rate, [exp |-> 0, g |-> 0], n).g

\* a / g for a >= 0 in fine units and g = Growth(..) > 0, to the nearest
\* fine unit: a * RateDen * GMul divided by the scaled g, as a long division
\* whose first digit h1 is a * RateDen / g and whose second digit h2 is
\* (the remainder of h1) * GMul / g.
DivGrowthSum(h1, h2, g) ==
    h1.q * GMul + h2.q + (IF 2 * h2.r >= g THEN 1 ELSE 0)

DivGrowthLow(h1, g) == DivGrowthSum(h1, MulDivRem(h1.r, GMul, g), g)

DivGrowth(a, g) == DivGrowthLow(MulDivRem(a, RateDen, g), g)

\* The payment with the sign of the balance.
Signed(balance, pay) == IF balance < 0 THEN -pay ELSE pay

\* first * (1 + 1 / g).
Annuity(first, g) == first + DivGrowth(first, g)

\* The annuity payment without its annuity factor: the first month's interest.
interest_only_payment(balance, annual_bond_rate, months_remaining) ==
    balance * annual_bond_rate

\* balance * r / (1 - (1 + r) ** (-months_remaining)), in fine units.  With
\* g = (1 + r)^n - 1 the denominator is g / (1 + g), so the payment is
\* balance * r * (1 + 1/g).
monthly_annuity_payment(balance, annual_bond_rate, months_remaining) ==
    IF balance = 0 \/ months_remaining = 0 THEN 0
    ELSE IF annual_bond_rate = 0
         THEN (balance * RateDen) \div months_remaining
    ELSE Signed(balance,
                Annuity(Abs(balance) * annual_bond_rate,
                        Growth(annual_bond_rate, months_remaining)))

\* An amount x of fine units as <<whole quanta, fine units left over>>.
Parts(x) == <<x \div RateDen, x % RateDen>>

\* The annuity payment taken to cover the bidragssats as well.
PrincipalDueNetOfFee(annuity_payment, bond_interest, bids_monthly) ==
    annuity_payment - bond_interest - bids_monthly

\* principal = annuity_payment - bond_interest, in fine units: the month's
\* bidragssats takes no part in it.
PrincipalDue(annuity_payment, bond_interest, bids_monthly) ==
    annuity_payment - bond_interest

\* min(principal, balance) without the guard.
ClampToBalanceOff(principal, balance) == Parts(principal)

\* min(principal, balance): principal in fine units, balance in quanta; the
\* result in parts.
ClampToBalance(principal, balance) ==
    IF \/ principal \div RateDen < balance
       \/ principal \div RateDen = balance /\ principal % RateDen = 0
    THEN Parts(principal)
    ELSE <<balance, 0>>

\* The balance rounded but the repayment not taken off it.
RoundBalanceKept(balance, principal) == RoundParts(balance, 0)

\* round(balance - principal, 2) with the principal in parts.
RoundBalance(balance, principal) ==
    IF principal[2] = 0 THEN RoundParts(balance - principal[1], 0)
    ELSE RoundParts(balance - principal[1] - 1, RateDen - principal[2])

\* One month short of the term.
TotalMonthsShort(params) == params.term_years * 12 - 1

\* total_months = params.term_years * 12
TotalMonths(params) == params.term_years * 12

\* month < io_months: the last interest-only month taken for an annuity month.
IsInterestOnlyStrict(month, params) == month < params.io_years * 12

\* is_io = month <= io_months, with io_months = params.io_years * 12
IsInterestOnly(month, params) == month <= params.io_years * 12

\* The loop body of build_amortization_schedule, entered with the locals
\* `loop`: the rows appended so far, the running balance and the annuity
\* payment fixed before the loop (month is the number of rows plus 1).  It
\* appends the month's row and updates the balance.
LoopBody(params, loop) ==
    LET month           == Len(loop.schedule) + 1
        balance         == loop.balance
        annuity_payment == loop.annuity_payment
        is_io           == IsInterestOnly(month, params)
        annual_bids     == get_effective_bidragssats(params.institution, ltv(params), is_io)
        bids_monthly    == balance * annual_bids
        bond_interest   == balance * BOND_RATES[params.loan_type]
        principal       == IF is_io THEN <<0, 0>>
                           ELSE ClampToBalance(
                                    PrincipalDue(annuity_payment, bond_interest, bids_monthly),
                                    balance)
        total_payment   == IF is_io THEN bond_interest + bids_monthly
                           ELSE annuity_payment + bids_monthly
    IN  [schedule |-> Append(loop.schedule,
                             [month         |-> month,
                              balance       |-> balance,
                              bond_interest |-> Round2(bond_interest),
                              bidragssats   |-> Round2(bids_monthly),
                              principal     |-> RoundParts(principal[1], principal[2]),
                              total_payment |-> Round2(total_payment)]),
         balance  |-> RoundBalance(balance, principal),
         annuity_payment |-> annuity_payment]

\* for month in range(1, total_months + 1): the iterations from the locals
\* `loop` up to and including month `last`, done in two halves, which keeps
\* the evaluation shallow.
RECURSIVE ScheduleLoop(_, _, _)
ScheduleLoop(params, loop, last) ==
    IF Len(loop.schedule) >= last THEN loop
    ELSE IF Len(loop.schedule) + 1 = last THEN LoopBody(params, loop)
    ELSE ScheduleLoop(params,
                      ScheduleLoop(params, loop, (Len(loop.schedule) + last) \div 2),
                      last)

build_amortization_schedule(params) ==
    LET total_months   == TotalMonths(params)
        io_months      == params.io_years * 12
        annuity_months == total_months - io_months
        balance        == params.loan_amount_dkk
        annuity_payment ==
            monthly_annuity_payment(balance, BOND_RATES[params.loan_type], annuity_months)
    IN  ScheduleLoop(params,
                     [schedule        |-> << >>,
                      balance         |-> balance,
                      annuity_payment |-> annuity_payment],
                     total_months).schedule

\* compute_one_time_costs without the kurs discount.
compute_one_time_costs_par(loan_amount_dkk, bond_kurs) ==
    LET variable == (TINGLYSNING_RATE + KURSKAERING_RATE) * loan_amount_dkk
    IN  <<(TINGLYSNING_FLAT_DKK + ESTABLISHMENT_FEE_DKK) * DKK + variable \div RateUnit,
          variable % RateUnit>>

\* compute_one_time_costs, as <<whole quanta, parts of RateUnit left over>>.
\* bond_kurs is counted in tenths of a percent of face value.
compute_one_time_costs(loan_amount_dkk, bond_kurs) ==
    LET tinglysning   == TINGLYSNING_RATE * loan_amount_dkk
        kurskaering   == KURSKAERING_RATE * loan_amount_dkk
        discount      == (1000 - bond_kurs) * 10 * loan_amount_dkk
        kurs_discount == IF discount > 0 THEN discount ELSE 0
        variable      == tinglysning + kurskaering + kurs_discount
    IN  <<(TINGLYSNING_FLAT_DKK + ESTABLISHMENT_FEE_DKK) * DKK + variable \div RateUnit,
          variable % RateUnit>>

(***************************************************************************)
(* calculator.py: compute_aop                                              *)
(*                                                                         *)
(* The Newton iteration runs on Python floats.  A float is modelled as a   *)
(* decimal floating-point number [m, e] of value m * 10^e with a mantissa  *)
(* of four digits (1000 <= |m| <= 9999, or m = 0), every operation being   *)
(* rounded towards zero, and with the range of a double: a power above     *)
(* 1.797e308 raises OverflowError, as float ** int does.  Four digits      *)
(* follow an iteration that diverges, whose iterates grow by orders of     *)
(* magnitude at each step, to the step at which it leaves the range; they  *)
(* do not resolve a step of 1e-10 around a root.                           *)
(***************************************************************************)
\* The least mantissa of a nonzero float.
MantMin == 10 * 100

\* m * 10^e with the mantissa brought to four digits.
RECURSIVE FloatNorm(_, _)
FloatNorm(m, e) ==
    IF m = 0 THEN [m |-> 0, e |-> 0]
    ELSE IF Abs(m) >= 10 * MantMin
         THEN FloatNorm(IF m < 0 THEN -((-m) \div 10) ELSE m \div 10, e + 1)
    ELSE IF Abs(m) < MantMin THEN FloatNorm(m * 10, e - 1)
    ELSE [m |-> m, e |-> e]

\* float(x) of an integer x.
FloatOfInt(x) == FloatNorm(x, 0)

FloatNeg(a) == [m |-> -a.m, e |-> a.e]

\* a * b
FloatMul(a, b) == FloatNorm(a.m * b.m, a.e + b.e)

\* a / b for b # 0: the quotient of the mantissas to five or more digits.
FloatDiv(a, b) ==
    LET q == (Abs(a.m) * 10 * MantMin) \div Abs(b.m)
    IN  FloatNorm(IF (a.m < 0) = (b.m < 0) THEN q ELSE -q, a.e - b.e - 4)

\* a + b: exact when the exponents are at most five apart, the larger
\* operand otherwise.
FloatAdd(a, b) ==
    IF a.m = 0 THEN b
    ELSE IF b.m = 0 THEN a
    ELSE IF a.e - b.e > 5 THEN a
    ELSE IF b.e - a.e > 5 THEN b
    ELSE IF a.e >= b.e THEN FloatNorm(a.m * 10 ^ (a.e - b.e) + b.m, b.e)
    ELSE FloatNorm(b.m * 10 ^ (b.e - a.e) + a.m, a.e)

FloatSub(a, b) == FloatAdd(a, FloatNeg(b))

\* abs(a) < 10^k
FloatAbsBelow(a, k) == a.m = 0 \/ a.e + 3 < k

\* abs(a) is above the largest double, 1.797e308.
FloatOverflows(a) == a.e > 305 \/ (a.e = 305 /\ Abs(a.m) > 1797)

\* a is zero, or nonzero and below the least double, which is stored as 0.0.
FloatIsZero(a) == a.m = 0 \/ a.e + 3 < -323

\* An amount of x quanta as a float of DKK.
FloatOfQuanta(x) == FloatDiv(FloatOfInt(x), FloatOfInt(DKK))

\* One term of each of the two sums of an iteration, `acc` holding the
\* number t of terms done, the power (1 + monthly_rate)^t, the sums so far
\* of npv_minus_received and of npv_derivative, and the exception raised:
\* the term of payment t + 1 divides by the powers t + 1 and t + 2, of which
\* one out of range raises OverflowError and one that is 0.0
\* ZeroDivisionError.
AopTerm(payments, base, acc) ==
    LET p1 == FloatMul(acc.pow, base)
        p2 == FloatMul(p1, base)
        p  == FloatOfQuanta(payments[acc.t + 1].total_payment)
    IN  IF acc.raised # "none" THEN [acc EXCEPT !.t = acc.t + 1]
        ELSE IF FloatOverflows(p1) \/ FloatOverflows(p2)
             THEN [acc EXCEPT !.t = acc.t + 1, !.raised = "OverflowError"]
        ELSE IF FloatIsZero(p1) \/ FloatIsZero(p2)
             THEN [acc EXCEPT !.t = acc.t + 1, !.raised = "ZeroDivisionError"]
        ELSE [t      |-> acc.t + 1,
              pow    |-> p1,
              total  |-> FloatAdd(acc.total, FloatDiv(p, p1)),
              dtotal |-> FloatAdd(acc.dtotal,
                                  FloatDiv(FloatMul(FloatOfInt(-(acc.t + 1)), p), p2)),
              raised |-> "none"]

\* The terms from the state `acc` up to term `last`, in two halves.
RECURSIVE AopTerms(_, _, _, _)
AopTerms(payments, base, acc, last) ==
    IF acc.t >= last THEN acc
    ELSE IF acc.t + 1 = last THEN AopTerm(payments, base, acc)
    ELSE AopTerms(payments, base,
                  AopTerms(payments, base, acc, (acc.t + last) \div 2), last)

\* The two sums at monthly_rate.
AopSums(payments, monthly_rate) ==
    AopTerms(payments, FloatAdd(FloatOfInt(1), monthly_rate),
             [t |-> 0, pow |-> FloatOfInt(1), total |-> FloatOfInt(0),
              dtotal |-> FloatOfInt(0), raised |-> "none"],
             Len(payments))

\* The rest of an iteration whose sums are `sums`: the loop state after it.
\* `loop` holds the iterations begun, monthly_rate, whether a break has left
\* the loop and the exception raised.
AopApply(loop, f, df) ==
    IF FloatAbsBelow(df, -15) THEN [loop EXCEPT !.it = loop.it + 1, !.broke = "derivative"]
    ELSE [it           |-> loop.it + 1,
          monthly_rate |-> FloatSub(loop.monthly_rate, FloatDiv(f, df)),
          broke        |-> IF FloatAbsBelow(FloatDiv(f, df), -10) THEN "step" ELSE "no",
          raised       |-> "none"]

AopAfterSums(loop, net_received, sums) ==
    IF sums.raised # "none"
    THEN [loop EXCEPT !.it = loop.it + 1, !.raised = sums.raised]
    ELSE AopApply(loop, FloatSub(sums.total, net_received), sums.dtotal)

\* One pass of `for _ in range(200)`.
AopIteration(payments, net_received, loop) ==
    AopAfterSums(loop, net_received, AopSums(payments, loop.monthly_rate))

\* The passes from the state `loop` up to pass `last`, in two halves; a
\* break or an exception ends them.
RECURSIVE AopLoop(_, _, _, _)
AopLoop(payments, net_received, loop, last) ==
    IF loop.it >= last \/ loop.broke # "no" \/ loop.raised # "none" THEN loop
    ELSE IF loop.it + 1 = last THEN AopIteration(payments, net_received, loop)
    ELSE AopLoop(payments, net_received,
                 AopLoop(payments, net_received, loop, (loop.it + last) \div 2), last)

\* (1 + monthly_rate) ** 12, by squaring: [raised, value].
AopPower12(base) ==
    LET b2  == FloatMul(base, base)
        b4  == FloatMul(b2, b2)
        b8  == FloatMul(b4, b4)
        b12 == FloatMul(b8, b4)
    IN  IF FloatOverflows(b2) \/ FloatOverflows(b4) \/ FloatOverflows(b8)
           \/ FloatOverflows(b12)
        THEN [raised |-> "OverflowError"]
        ELSE [raised |-> "none", value |-> FloatSub(b12, FloatOfInt(1))]

\* round(a, 6): a mantissa that reaches below the sixth decimal is rounded
\* there, to the even digit when midway.
FloatRound6(a) ==
    LET k    == -6 - a.e
        unit == 10 ^ k
        q    == Abs(a.m) \div unit
        rest == Abs(a.m) % unit
        up   == 2 * rest > unit \/ (2 * rest = unit /\ q % 2 = 1)
        r    == IF up THEN q + 1 ELSE q
    IN  IF a.e >= -6 THEN a
        ELSE IF k > 5 THEN FloatOfInt(0)
        ELSE FloatNorm(IF a.m < 0 THEN -r ELSE r, -6)

\* The return statement after the loop has ended in the state `loop`:
\* [raised, value], the value being the rate returned together with the
\* number of passes begun and the break that ended the loop.
AopReturn(loop, annual) ==
    IF loop.raised # "none" THEN [raised |-> loop.raised]
    ELSE IF annual.raised # "none" THEN [raised |-> annual.raised]
    ELSE [raised |-> "none",
          value  |-> [aop |-> FloatRound6(annual.value), iterations |-> loop.it,
                      broke |-> loop.broke]]

AopFinish(loop) ==
    AopReturn(loop, AopPower12(FloatAdd(FloatOfInt(1), loop.monthly_rate)))

\* compute_aop(loan_amount, schedule, one_time_costs), the money in quanta.
compute_aop(loan_amount, schedule, one_time_costs) ==
    AopFinish(AopLoop(schedule,
                      FloatSub(FloatOfQuanta(loan_amount), FloatOfQuanta(one_time_costs)),
                      [it |-> 0, monthly_rate |-> FloatNorm(4, -3), broke |-> "no",
                       raised |-> "none"],
                      200))

\* sum(row.<field> for row in schedule[lo..hi]), summed in two halves.
RECURSIVE SumField(_, _, _, _)
SumField(schedule, field, lo, hi) ==
    IF lo > hi THEN 0
    ELSE IF lo = hi THEN schedule[lo][field]
    ELSE SumField(schedule, field, lo, (lo + hi) \div 2)
         + SumField(schedule, field, (lo + hi) \div 2 + 1, hi)

Total(schedule, field) == SumField(schedule, field, 1, Len(schedule))

\* The LoanResult that analyze_loan returns, but for its aop field, which
\* is the work of compute_aop.
LoanResult(params, schedule, one_time_costs) ==
    [params              |-> params,
     schedule            |-> schedule,
     total_bond_interest |-> RoundParts(Total(schedule, "bond_interest"), 0),
     total_bidragssats   |-> RoundParts(Total(schedule, "bidragssats"), 0),
     total_principal     |-> RoundParts(Total(schedule, "principal"), 0),
     total_cost          |->
         RoundFrac(Total(schedule, "bond_interest") + Total(schedule, "bidragssats")
                   + Total(schedule, "principal") + one_time_costs[1],
                   one_time_costs[2], RateUnit),
     one_time_costs      |-> RoundFrac(one_time_costs[1], one_time_costs[2], RateUnit)]

\* The end of analyze_loan: the exception of compute_aop, or the LoanResult
\* with the rate it returned.
WithAop(loan_result, aop) ==
    IF aop.raised # "none" THEN [raised |-> aop.raised, value |-> None]
    ELSE [raised |-> "none", value |-> [aop |-> aop.value.aop] @@ loan_result]

\* analyze_loan: [raised, value].  The second statement evaluates
\* params.bond_kurs, an attribute lookup on the LoanParams object, which
\* raises AttributeError when the object has no such attribute; the schedule
\* built by the first statement is lost with it.
analyze_loan(params) ==
    IF "bond_kurs" \notin DOMAIN params
    THEN [raised |-> "AttributeError", value |-> None]
    ELSE WithAop(LoanResult(params,
                            build_amortization_schedule(params),
                            compute_one_time_costs(params.loan_amount_dkk,
                                                   params.bond_kurs)),
                 compute_aop(params.loan_amount_dkk,
                             build_amortization_schedule(params),
                             compute_one_time_costs(params.loan_amount_dkk,
                                                    params.bond_kurs)[1]))

\* The RankedResult of one institution (rank 0 until the list is sorted).
RankedResult(institution, loan_result) ==
    [rank                |-> 0,
     institution         |-> institution,
     total_lifetime_cost |-> loan_result.total_cost,
     total_bidragssats   |-> loan_result.total_bidragssats,
     total_bond_interest |-> loan_result.total_bond_interest,
     one_time_costs      |-> loan_result.one_time_costs,
     result              |-> loan_result]

\* list.sort(key=total_lifetime_cost) is stable: an element goes behind every
\* element whose key is not greater than its own.
RECURSIVE SortInsert(_, _)
SortInsert(sorted, r) ==
    IF sorted = << >> THEN <<r>>
    ELSE IF r.total_lifetime_cost < sorted[1].total_lifetime_cost
         THEN <<r>> \o sorted
    ELSE <<sorted[1]>> \o SortInsert(Tail(sorted), r)

RECURSIVE SortByCost(_)
SortByCost(results) ==
    IF results = << >> THEN << >>
    ELSE SortInsert(SortByCost(SubSeq(results, 1, Len(results) - 1)),
                    results[Len(results)])

\* r.rank = i + 1 for the i-th element (0-based) of the sorted list.
AssignRanks(results) ==
    [i \in DOMAIN results |-> [results[i] EXCEPT !.rank = i]]

\* compare_institutions: [raised, value].  The loop constructs a LoanParams
\* and calls analyze_loan for each institution in turn; an exception raised by
\* either leaves the function at once.  `a` holds the arguments, i the
\* position in INSTITUTIONS, `results` the list so far.
RECURSIVE CompareLoop(_, _, _)
RECURSIVE CompareAppend(_, _, _, _)
CompareAppend(a, i, results, loan_result) ==
    IF loan_result.raised # "none"
    THEN [raised |-> loan_result.raised, value |-> None]
    ELSE CompareLoop(a, i + 1,
                     Append(results, RankedResult(INSTITUTIONS[i], loan_result.value)))

CompareLoop(a, i, results) ==
    IF i > Len(INSTITUTIONS)
    THEN [raised |-> "none", value |-> AssignRanks(SortByCost(results))]
    ELSE IF LoanParamsError(a.property_value_dkk, a.loan_amount_dkk, a.loan_type,
                            a.term_years, a.io_years, INSTITUTIONS[i]) # "none"
         THEN [raised |-> LoanParamsError(a.property_value_dkk, a.loan_amount_dkk,
                                          a.loan_type, a.term_years, a.io_years,
                                          INSTITUTIONS[i]),
               value  |-> None]
    ELSE CompareAppend(a, i, results,
                       analyze_loan(LoanParams(a.property_value_dkk, a.loan_amount_dkk,
                                               a.loan_type, a.term_years, a.io_years,
                                               INSTITUTIONS[i])))

compare_institutions(property_value_dkk, loan_amount_dkk, loan_type, term_years, io_years) ==
    CompareLoop([property_value_dkk |-> property_value_dkk,
                 loan_amount_dkk    |-> loan_amount_dkk,
                 loan_type          |-> loan_type,
                 term_years         |-> term_years,
                 io_years           |-> io_years], 1, << >>)

\* A float that is either infinity or a number of tenths of a month.
Inf == [inf |-> TRUE, tenths |-> 0]

Months(tenths) == [inf |-> FALSE, tenths |-> tenths]

\* round(num / den, 1) in tenths, for den > 0: the nearest tenth.  A quotient
\* midway between two tenths goes to the even one here; in Python the
\* float's representation error decides, and no property stated here depends
\* on the direction.
RoundTenths(num, den) ==
    LET q  == (10 * Abs(num)) \div den
        r  == (10 * Abs(num)) % den
        up == IF 2 * r > den \/ (2 * r = den /\ q % 2 = 1) THEN q + 1 ELSE q
    IN  IF num < 0 THEN -up ELSE up

\* compute_breakeven_months with the comparison of its guard turned round.
compute_breakeven_months_reversed(current, alternative) ==
    LET switching_cost == alternative.one_time_costs
        monthly_saving == current.result.schedule[1].total_payment
                          - alternative.result.schedule[1].total_payment
    IN  IF monthly_saving >= 0 THEN Inf
        ELSE Months(RoundTenths(-switching_cost, -monthly_saving))

compute_breakeven_months(current, alternative) ==
    LET switching_cost == alternative.one_time_costs
        current_m1     == current.result.schedule[1].total_payment
        alt_m1         == alternative.result.schedule[1].total_payment
        monthly_saving == current_m1 - alt_m1
    IN  IF monthly_saving <= 0 THEN Inf
        ELSE Months(RoundTenths(switching_cost, monthly_saving))

\* The dict filled by `for r in ranked`: an institution's entry is the one
\* written for the last r that names it.
BreakevenEntry(r, cheapest) ==
    IF r.rank = 1 THEN Months(0) ELSE compute_breakeven_months(r, cheapest)

BreakevenMap(ranked) ==
    [institution \in {ranked[i].institution : i \in DOMAIN ranked} |->
        LET last == CHOOSE i \in DOMAIN ranked :
                        /\ ranked[i].institution = institution
                        /\ \A j \in DOMAIN ranked :
                               ranked[j].institution = institution => j <= i
        IN  BreakevenEntry(ranked[last], ranked[1])]

\* The rest of rank_with_breakeven once compare_institutions has raised or
\* returned `ranked`.
RankFinish(ranked) ==
    IF ranked.raised # "none" THEN [raised |-> ranked.raised, value |-> None]
    ELSE [raised |-> "none", value |-> <<ranked.value, BreakevenMap(ranked.value)>>]

\* rank_with_breakeven: [raised, value].  `keywords` holds the keyword
\* arguments of the call beyond the five parameters of the signature, as
\* <<name, value>> pairs; the call raises TypeError on any of them before the
\* body runs.
rank_with_breakeven(property_value_dkk, loan_amount_dkk, loan_type, term_years, io_years, keywords) ==
    IF keywords # << >> THEN [raised |-> "TypeError", value |-> None]
    ELSE RankFinish(compare_institutions(property_value_dkk, loan_amount_dkk,
                                         loan_type, term_years, io_years))

(***************************************************************************)
(* tax.py                                                                  *)
(***************************************************************************)
\* compute_rentefradrag with the whole amount at the low rate.
compute_rentefradrag_flat(annual_bond_interest_dkk) ==
    LET saving == annual_bond_interest_dkk * RENTEFRADRAG_RATE_LOW
    IN  RoundFrac(saving \div 100, saving % 100, 100)

\* compute_rentefradrag with the two rates exchanged.
compute_rentefradrag_swapped(annual_bond_interest_dkk) ==
    LET threshold    == RENTEFRADRAG_THRESHOLD_DKK * DKK
        low_portion  == IF annual_bond_interest_dkk < threshold
                        THEN annual_bond_interest_dkk ELSE threshold
        high_portion == IF annual_bond_interest_dkk - threshold > 0
                        THEN annual_bond_interest_dkk - threshold ELSE 0
        saving       == low_portion * RENTEFRADRAG_RATE_HIGH
                        + high_portion * RENTEFRADRAG_RATE_LOW
    IN  RoundFrac(saving \div 100, saving % 100, 100)

\* compute_rentefradrag: the saving in quanta, the rates being percentages.
compute_rentefradrag(annual_bond_interest_dkk) ==
    LET threshold    == RENTEFRADRAG_THRESHOLD_DKK * DKK
        low_portion  == IF annual_bond_interest_dkk < threshold
                        THEN annual_bond_interest_dkk ELSE threshold
        high_portion == IF annual_bond_interest_dkk - threshold > 0
                        THEN annual_bond_interest_dkk - threshold ELSE 0
        saving       == low_portion * RENTEFRADRAG_RATE_LOW
                        + high_portion * RENTEFRADRAG_RATE_HIGH
    IN  RoundFrac(saving \div 100, saving % 100, 100)

\* Fine units to the quantum in analyze_foreign_property: with the foreign
\* mortgage rate in whole percent, balance * rate / 12 is a whole number of
\* them.  The tax rates are in whole percent, currency_to_dkk in hundredths
\* and debt_ceiling_multiplier in tenths.
PctDen == 12 * 100

\* round(x, 2) of x / den quanta, x and den being integers.
RoundRatio(x, den) == RoundFrac(x \div den, x % den, den)

\* round(x, 2) of (w + f / den) * k / kden quanta, 0 <= f < den.
ScaleRound(w, f, den, k, kden) ==
    LET rest == ((w * k) % kden) * den + f * k
    IN  RoundFrac((w * k) \div kden + rest \div (den * kden),
                  rest % (den * kden), den * kden)

\* monthly_foreign_mortgage_interest, in fine units.
monthly_foreign_mortgage_interest(fp) ==
    IF fp.foreign_mortgage_balance > 0
    THEN fp.foreign_mortgage_balance * fp.foreign_mortgage_rate
    ELSE 0

\* Income less expenses and mortgage interest, in fine units.
NetOfCosts(fp) ==
    (fp.monthly_rental_income_foreign - fp.monthly_expenses_foreign) * PctDen
        - monthly_foreign_mortgage_interest(fp)

\* taxable_base without the floor.
taxable_base_unfloored(fp) == NetOfCosts(fp)

\* taxable_base = max(0.0, income - expenses - interest), in fine units.
taxable_base(fp) == IF NetOfCosts(fp) > 0 THEN NetOfCosts(fp) ELSE 0

\* foreign_tax = round(taxable_base * foreign_income_tax_rate, 2).
foreign_tax(fp) ==
    ScaleRound(taxable_base(fp) \div PctDen, taxable_base(fp) % PctDen, PctDen,
               fp.foreign_income_tax_rate, 100)

\* dk_topup_rate charging the domestic rate in full.
dk_topup_rate_full(fp) == fp.dk_marginal_tax_rate

\* dk_topup_rate = max(0.0, dk_marginal_tax_rate - foreign_income_tax_rate).
dk_topup_rate(fp) ==
    IF fp.dk_marginal_tax_rate - fp.foreign_income_tax_rate > 0
    THEN fp.dk_marginal_tax_rate - fp.foreign_income_tax_rate
    ELSE 0

\* dk_topup_tax_dkk = round(taxable_base * currency_to_dkk * dk_topup_rate, 2).
dk_topup_tax_dkk(fp) ==
    ScaleRound(taxable_base(fp) \div PctDen, taxable_base(fp) % PctDen, PctDen,
               fp.currency_to_dkk * dk_topup_rate(fp), 100 * 100)

\* net_monthly_foreign computed from the floored taxable base.
net_monthly_foreign_floored(fp) ==
    RoundRatio(taxable_base(fp) - foreign_tax(fp) * PctDen, PctDen)

\* net_monthly_foreign = round(income - expenses - interest - foreign_tax, 2).
net_monthly_foreign(fp) ==
    RoundRatio(NetOfCosts(fp) - foreign_tax(fp) * PctDen, PctDen)

\* net_monthly_dkk = round(net_monthly_foreign * currency_to_dkk
\*                         - dk_topup_tax_dkk, 2).
net_monthly_dkk(fp) ==
    RoundRatio(net_monthly_foreign(fp) * fp.currency_to_dkk
                   - dk_topup_tax_dkk(fp) * 100, 100)

\* max_total_debt_dkk = round(annual_gross_income_dkk * multiplier, 2).
max_total_debt_dkk(fp) ==
    RoundRatio(fp.annual_gross_income_dkk * fp.debt_ceiling_multiplier, 10)

\* foreign_mortgage_dkk = round(foreign_mortgage_balance * currency_to_dkk, 2).
foreign_mortgage_dkk(fp) ==
    RoundRatio(fp.foreign_mortgage_balance * fp.currency_to_dkk, 100)

\* available_dk_debt_dkk without the floor.
available_dk_debt_dkk_unfloored(fp) ==
    max_total_debt_dkk(fp) - foreign_mortgage_dkk(fp)

\* available_dk_debt_dkk = round(max(0.0, max_total_debt_dkk
\*                                        - foreign_mortgage_dkk), 2).
available_dk_debt_dkk(fp) ==
    IF max_total_debt_dkk(fp) - foreign_mortgage_dkk(fp) > 0
    THEN max_total_debt_dkk(fp) - foreign_mortgage_dkk(fp)
    ELSE 0

\* analyze_foreign_property(fp): the ForeignPropertyResult, amounts in quanta.
analyze_foreign_property(fp) ==
    [gross_monthly_foreign             |-> fp.monthly_rental_income_foreign,
     expenses_monthly_foreign          |-> fp.monthly_expenses_foreign,
     foreign_mortgage_interest_foreign |->
         RoundRatio(monthly_foreign_mortgage_interest(fp), PctDen),
     taxable_base_foreign              |-> RoundRatio(taxable_base(fp), PctDen),
     foreign_tax_monthly_foreign       |-> foreign_tax(fp),
     dk_topup_tax_monthly_dkk          |-> dk_topup_tax_dkk(fp),
     net_monthly_foreign               |-> net_monthly_foreign(fp),
     net_monthly_dkk                   |-> net_monthly_dkk(fp),
     max_total_debt_dkk                |-> max_total_debt_dkk(fp),
     foreign_mortgage_dkk              |-> foreign_mortgage_dkk(fp),
     available_dk_debt_dkk             |-> available_dk_debt_dkk(fp),
     cross_border_tax_note             |-> "CROSS_BORDER_TAX_NOTE"]

\* The row that schedule[idx] reads without the max(0, ...): a negative
\* index counts from the end of the list.
RowIndexWrapped(month, n) ==
    LET idx == IF month - 1 < n - 1 THEN month - 1 ELSE n - 1
    IN  IF idx < 0 THEN n + idx + 1 ELSE idx + 1

\* idx = max(0, min(month - 1, len(schedule) - 1)), as the 1-based position
\* of schedule[idx].
RowIndex(month, n) ==
    LET low == IF month - 1 < n - 1 THEN month - 1 ELSE n - 1
        idx == IF low > 0 THEN low ELSE 0
    IN  idx + 1

\* The dict combined_monthly_picture returns for the row it chose, the
\* saving being in twelfths of a quantum.
Picture(row, saving, foreign_result) ==
    [dk_gross_cost_dkk       |-> row.total_payment,
     rentefradrag_saving_dkk |-> RoundRatio(saving, 12),
     dk_net_cost_dkk         |-> RoundRatio(row.total_payment * 12 - saving, 12),
     foreign_income_dkk      |-> foreign_result.net_monthly_dkk,
     combined_net_dkk        |-> RoundRatio(row.total_payment * 12 - saving, 12)
                                     - foreign_result.net_monthly_dkk]

\* The picture of one row: monthly_rentefradrag is a twelfth of the saving
\* on twelve times the row's bond interest.
PictureOfRow(row, foreign_result) ==
    Picture(row, compute_rentefradrag(row.bond_interest * 12), foreign_result)

\* combined_monthly_picture(loan_result, foreign_result, month).
combined_monthly_picture(loan_result, foreign_result, month) ==
    IF Len(loan_result.schedule) < RowIndex(month, Len(loan_result.schedule))
    THEN [raised |-> "IndexError"]
    ELSE [raised |-> "none",
          value  |-> PictureOfRow(
                         loan_result.schedule[RowIndex(month, Len(loan_result.schedule))],
                         foreign_result)]

(***************************************************************************)
(* gui.py                                                                  *)
(***************************************************************************)
\* MortgageWindow.__init__: no result stored, the export action disabled.
\* An attribute that is None is << >>, one that holds v is <<v>>; `written`
\* is the set of paths a report was written to.
MortgageWindow ==
    [loan_result    |-> << >>,
     ranked         |-> << >>,
     breakeven      |-> << >>,
     export_enabled |-> FALSE,
     title          |-> "Danish Mortgage Analysis Tool",
     status         |-> "Enter loan parameters",
     error_label    |-> "",
     written        |-> {}]

\* The end of _on_params_ready once rank_with_breakeven has raised or
\* returned `ranked`: [raised, window].
ParamsReadyShow(w, ranked) ==
    IF ranked.raised # "none" THEN [raised |-> ranked.raised, window |-> w]
    ELSE [raised |-> "none",
          window |-> [w EXCEPT !.ranked = <<ranked.value[1]>>,
                               !.breakeven = <<ranked.value[2]>>,
                               !.title = "loan",
                               !.status = "computed",
                               !.export_enabled = TRUE]]

\* _on_params_ready after its first statement, analyze_loan(params), has
\* raised or returned `loan_result`.  The assignment to self._loan_result
\* happens before rank_with_breakeven is called, whose argument list reads
\* params.bond_kurs.
ParamsReadyRank(w, params, loan_result) ==
    IF loan_result.raised # "none" THEN [raised |-> loan_result.raised, window |-> w]
    ELSE IF "bond_kurs" \notin DOMAIN params
    THEN [raised |-> "AttributeError",
          window |-> [w EXCEPT !.loan_result = <<loan_result.value>>]]
    ELSE ParamsReadyShow([w EXCEPT !.loan_result = <<loan_result.value>>],
                         rank_with_breakeven(params.property_value_dkk,
                                             params.loan_amount_dkk, params.loan_type,
                                             params.term_years, params.io_years,
                                             <<<<"bond_kurs", params.bond_kurs>>>>))

\* MortgageWindow._on_params_ready(params): [raised, window].  Nothing in it
\* catches an exception.
on_params_ready(w, params) == ParamsReadyRank(w, params, analyze_loan(params))

\* InputPanel._calculate with the widgets showing the given values, and the
\* slots connected to the two signals it emits: [raised, window].
\* LoanParams has no bond_kurs field, so the bond_kurs keyword is dropped by
\* the constructor.  A constructor error is shown in the error label and the
\* status bar and goes no further.
calculate(w, pv, la, lt, ty, io, inst, bond_kurs) ==
    IF LoanParamsError(pv, la, lt, ty, io, inst) # "none"
    THEN [raised |-> "none",
          window |-> [w EXCEPT !.error_label = LoanParamsError(pv, la, lt, ty, io, inst),
                               !.status = "Invalid input"]]
    ELSE on_params_ready([w EXCEPT !.error_label = ""],
                         LoanParams(pv, la, lt, ty, io, inst))

\* MortgageWindow._on_export when the save dialog returns `path` ("" when
\* it is cancelled) and the file system accepts the write or not:
\* [raised, window].  _generate_report_text iterates over the ranked list.
on_export(w, path, write_ok) ==
    IF w.loan_result = << >> THEN [raised |-> "none", window |-> w]
    ELSE IF path = "" THEN [raised |-> "none", window |-> w]
    ELSE IF w.ranked = << >> THEN [raised |-> "TypeError", window |-> w]
    ELSE IF write_ok
    THEN [raised |-> "none",
          window |-> [w EXCEPT !.written = @ \cup {path}, !.status = "Report saved"]]
    ELSE [raised |-> "none", window |-> [w EXCEPT !.status = "Export failed"]]

----------------------------------------------------------------------------
\* The inputs the entry points are called with.
PropertyValues == {0, 400 * DKK, -(400 * DKK)}

LoanAmounts ==
    {-(100 * DKK), 0, 3, 5 * Ore, 100 * DKK + 1,
     160 * DKK, 240 * DKK, 320 * DKK, 360 * DKK}

LoanTypeInputs == Range(LOAN_TYPES) \cup {"F10"}

InstitutionInputs == Range(INSTITUTIONS) \cup {"Danske Bank"}

TermInputs == 0 .. MaxTerm

IoInputs == -1 .. MaxTerm

\* Values the widgets of the input panel can show: loans at 40%, 80% and 90%
\* of the property value, two products, two institutions (and the shortest
\* and the longest term, with no interest-only year or as many as the
\* longest term has).
PanelLoanAmounts == {160 * DKK, 320 * DKK, 360 * DKK}

PanelLoanTypes == {"fixed_30y", "F5"}

PanelInstitutions == {"Totalkredit", "Nordea Kredit"}

\* Keyword arguments given beyond the signature: none, or the bond price in
\* tenths of a percent as the CLI and the GUI pass it.
KeywordInputs == {<< >>, <<<<"bond_kurs", 980>>>>, <<<<"bond_kurs", 1000>>>>}

\* Bond prices in tenths of a percent of face value: below, at and above par.
KursInputs == {950, 980, 1000, 1010}

\* First-month total payments and one-time costs of hand-built RankedResults.
PaymentInputs == {80 * DKK, 80 * DKK + Ore, 83 * DKK, 90 * DKK}

CostInputs == {-(10 * DKK), 0, 45 * Ore, 6850 * DKK + 39 * Ore}

\* A RankedResult as a caller builds one: the fields compute_breakeven_months
\* reads, around a schedule of one row.
RankedInput(institution, total_payment, one_time_costs) ==
    [rank           |-> 0,
     institution    |-> institution,
     one_time_costs |-> one_time_costs,
     result         |-> [schedule       |-> <<[month |-> 1, total_payment |-> total_payment]>>,
                         one_time_costs |-> one_time_costs]]

\* LTV ratios around the bracket boundaries.
LtvInputs ==
    {[num |-> -1, den |-> 4], [num |-> 0, den |-> 1], [num |-> 399, den |-> 1000],
     [num |-> 2, den |-> 5], [num |-> 599, den |-> 1000], [num |-> 3, den |-> 5],
     [num |-> 4, den |-> 5], [num |-> 1, den |-> 1]}

\* Annual bond interest around the rentefradrag threshold.
InterestInputs ==
    {-(100 * DKK), 0, 1, Ore, 30000 * DKK, 30000 * DKK + 3 * Ore,
     RENTEFRADRAG_THRESHOLD_DKK * DKK - Ore, RENTEFRADRAG_THRESHOLD_DKK * DKK - 1,
     RENTEFRADRAG_THRESHOLD_DKK * DKK, RENTEFRADRAG_THRESHOLD_DKK * DKK + 1,
     RENTEFRADRAG_THRESHOLD_DKK * DKK + Ore, 50003 * DKK + 2 * Ore, 80000 * DKK}

\* A ForeignPropertyParams as a caller builds one.  Amounts are in quanta of
\* their currency, the mortgage and tax rates in whole percent,
\* currency_to_dkk in hundredths and debt_ceiling_multiplier in tenths.
ForeignPropertyParams(income, expenses, mortgage, taxes, currency_to_dkk, annual_gross_income_dkk) ==
    [property_value_foreign        |-> 2500 * DKK,
     monthly_rental_income_foreign |-> income,
     monthly_expenses_foreign      |-> expenses,
     foreign_mortgage_balance      |-> mortgage.balance,
     foreign_mortgage_rate         |-> mortgage.rate,
     foreign_income_tax_rate       |-> taxes.foreign,
     dk_marginal_tax_rate          |-> taxes.dk,
     currency_to_dkk               |-> currency_to_dkk,
     annual_gross_income_dkk       |-> annual_gross_income_dkk,
     debt_ceiling_multiplier       |-> 35]

\* Rental income and expenses per month: none, a loss-making and a
\* profitable level, and amounts that are not a whole number of cents.
RentInputs == {0, 5 * DKK, 12 * DKK, 12 * DKK + 3}

ExpenseInputs == {2 * DKK, 4 * DKK + 1}

\* Foreign mortgages: none, a rate without a balance, and balances whose
\* interest takes part or all of the rent.
MortgageInputs ==
    {[balance |-> 0, rate |-> 0], [balance |-> 0, rate |-> 6],
     [balance |-> 1000 * DKK + 7, rate |-> 3], [balance |-> 2000 * DKK, rate |-> 6]}

\* Foreign and domestic tax rates: domestic above, equal to and below the
\* foreign one.
TaxInputs ==
    {[foreign |-> 21, dk |-> 42], [foreign |-> 30, dk |-> 30],
     [foreign |-> 42, dk |-> 21], [foreign |-> 10, dk |-> 37]}

CurrencyInputs == {100, 746}

\* Annual gross income: none, below and above what the foreign mortgages
\* take of the debt ceiling.
IncomeInputs == {0, 1000 * DKK, 6000 * DKK + 1}

\* Months asked of combined_monthly_picture: before, at and beyond the ends
\* of the schedules.
MonthInputs == {-1, 0, 1, 12, 12 * MaxTerm, 12 * MaxTerm + 1, 99999}

\* The institutions whose schedules combined_monthly_picture is asked about.
PictureInstitutions == {"Totalkredit", "Nordea Kredit"}

\* Net monthly results of the foreign property, in quanta of DKK.
NetInputs == {-(6714 * Ore), 5893 * Ore}

Init ==
    /\ call = "start"
    /\ args = << >>
    /\ held = << >>
    /\ raised = "none"
    /\ ret = << >>
    /\ window = << >>

\* p = LoanParams(...): validation runs inside construction; the caller gets
\* the object only when no validator raised.
Construct(pv, la, lt, ty, io, inst) ==
    LET error == LoanParamsError(pv, la, lt, ty, io, inst)
    IN  /\ call = "start"
        /\ call' = "LoanParams"
        /\ args' = <<pv, la, lt, ty, io, inst>>
        /\ raised' = error
        /\ held' = IF error = "none" THEN <<LoanParams(pv, la, lt, ty, io, inst)>>
                   ELSE << >>
        /\ ret' = held'
        /\ UNCHANGED window

\* The caller's state once the entry point `name`, called with `a`, has
\* raised or returned.
Return(name, a, result) ==
    /\ call' = name
    /\ args' = a
    /\ raised' = result.raised
    /\ ret' = IF result.raised = "none" THEN <<result.value>> ELSE << >>
    /\ UNCHANGED <<held, window>>

\* build_amortization_schedule(p) on the object the caller holds.
BuildSchedule ==
    /\ Len(held) = 1
    /\ Return("build_amortization_schedule", held,
              [raised |-> "none", value |-> build_amortization_schedule(held[1])])

\* analyze_loan(p) on the object the caller holds.
AnalyzeLoan ==
    /\ Len(held) = 1
    /\ Return("analyze_loan", held, analyze_loan(held[1]))

\* compare_institutions(...) takes the raw inputs, not a LoanParams.
Compare(pv, la, lt, ty, io) ==
    /\ call = "start"
    /\ Return("compare_institutions", <<pv, la, lt, ty, io>>,
              compare_institutions(pv, la, lt, ty, io))

\* rank_with_breakeven(...) with the raw inputs and any further keywords.
RankWithBreakeven(pv, la, lt, ty, io, keywords) ==
    /\ call = "start"
    /\ Return("rank_with_breakeven", <<pv, la, lt, ty, io, keywords>>,
              rank_with_breakeven(pv, la, lt, ty, io, keywords))

\* compute_breakeven_months(current, alternative) on two RankedResults.
ComputeBreakeven(current, alternative) ==
    /\ call = "start"
    /\ Return("compute_breakeven_months", <<current, alternative>>,
              [raised |-> "none", value |-> compute_breakeven_months(current, alternative)])

\* compute_one_time_costs(loan_amount_dkk, bond_kurs).
ComputeOneTimeCosts(la, bond_kurs) ==
    /\ call = "start"
    /\ Return("compute_one_time_costs", <<la, bond_kurs>>,
              [raised |-> "none", value |-> compute_one_time_costs(la, bond_kurs)])

\* get_ltv_bracket(ltv).
GetLtvBracket(l) ==
    /\ call = "start"
    /\ Return("get_ltv_bracket", <<l>>, [raised |-> "none", value |-> get_ltv_bracket(l)])

\* compute_rentefradrag(annual_bond_interest_dkk).
ComputeRentefradrag(x) ==
    /\ call = "start"
    /\ Return("compute_rentefradrag", <<x>>,
              [raised |-> "none", value |-> compute_rentefradrag(x)])

\* analyze_foreign_property(fp).
AnalyzeForeignProperty(fp) ==
    /\ call = "start"
    /\ Return("analyze_foreign_property", <<fp>>,
              [raised |-> "none", value |-> analyze_foreign_property(fp)])

\* combined_monthly_picture(loan_result, foreign_result, month) on a
\* LoanResult around the schedule just built and a ForeignPropertyResult
\* with the given net result: the fields the function reads.
CombinedMonthlyPicture(month, net) ==
    /\ call = "build_amortization_schedule"
    /\ held[1].institution \in PictureInstitutions
    /\ Return("combined_monthly_picture",
              <<[schedule |-> ret[1]], [net_monthly_dkk |-> net], month>>,
              combined_monthly_picture([schedule |-> ret[1]],
                                       [net_monthly_dkk |-> net], month))

\* compute_aop(params.loan_amount_dkk, schedule, one_time_costs) as
\* analyze_loan calls it, on the schedule just built and the one-time costs
\* of the loan at the bond price bond_kurs.
ComputeAop(bond_kurs) ==
    /\ call = "build_amortization_schedule"
    /\ Return("compute_aop", <<held[1].loan_amount_dkk, ret[1], bond_kurs>>,
              compute_aop(held[1].loan_amount_dkk, ret[1],
                          compute_one_time_costs(held[1].loan_amount_dkk, bond_kurs)[1]))

\* window = MortgageWindow(): the application starts.
OpenWindow ==
    /\ call = "start"
    /\ call' = "MortgageWindow"
    /\ args' = << >>
    /\ raised' = "none"
    /\ ret' = << >>
    /\ window' = <<MortgageWindow>>
    /\ UNCHANGED held

\* The window is open: it was built, or one of its slots ran last.  A slot
\* that raised leaves the window as it was at the raise, and the window goes
\* on taking events.
WindowOpen == call \in {"MortgageWindow", "_calculate", "_on_export"}

\* The window after the slot `name`, called with `a`, has raised or
\* returned.
Handled(name, a, result) ==
    /\ call' = name
    /\ args' = a
    /\ raised' = result.raised
    /\ ret' = << >>
    /\ window' = <<result.window>>
    /\ UNCHANGED held

\* A widget of the input panel changes or Calculate is pressed, the widgets
\* then showing these values: InputPanel._calculate runs.
Calculate(pv, la, lt, ty, io, inst, bond_kurs) ==
    /\ WindowOpen
    /\ Handled("_calculate", <<pv, la, lt, ty, io, inst, bond_kurs>>,
               calculate(window[1], pv, la, lt, ty, io, inst, bond_kurs))

\* MortgageWindow._on_export runs.
Export(path, write_ok) ==
    /\ WindowOpen
    /\ Handled("_on_export", <<path, write_ok>>, on_export(window[1], path, write_ok))

Next ==
    \/ \E pv \in PropertyValues, la \in LoanAmounts, lt \in LoanTypeInputs,
          ty \in TermInputs, io \in IoInputs, inst \in InstitutionInputs :
            Construct(pv, la, lt, ty, io, inst)
    \/ BuildSchedule
    \/ AnalyzeLoan
    \/ \E pv \in PropertyValues, la \in LoanAmounts, lt \in LoanTypeInputs,
          ty \in TermInputs, io \in IoInputs :
            Compare(pv, la, lt, ty, io)
    \/ \E pv \in PropertyValues, la \in LoanAmounts, lt \in LoanTypeInputs,
          ty \in TermInputs, io \in IoInputs, keywords \in KeywordInputs :
            RankWithBreakeven(pv, la, lt, ty, io, keywords)
    \/ \E pc, pa \in PaymentInputs, cc, ca \in CostInputs :
            ComputeBreakeven(RankedInput(INSTITUTIONS[2], pc, cc),
                             RankedInput(INSTITUTIONS[1], pa, ca))
    \/ \E la \in LoanAmounts, bond_kurs \in KursInputs :
            ComputeOneTimeCosts(la, bond_kurs)
    \/ \E l \in LtvInputs : GetLtvBracket(l)
    \/ \E x \in InterestInputs : ComputeRentefradrag(x)
    \/ \E income \in RentInputs, expenses \in ExpenseInputs,
          mortgage \in MortgageInputs, taxes \in TaxInputs,
          currency_to_dkk \in CurrencyInputs, annual_gross_income_dkk \in IncomeInputs :
            AnalyzeForeignProperty(
                ForeignPropertyParams(income, expenses, mortgage, taxes,
                                      currency_to_dkk, annual_gross_income_dkk))
    \/ \E month \in MonthInputs, net \in NetInputs : CombinedMonthlyPicture(month, net)
    \/ \E bond_kurs \in {980, 1000} : ComputeAop(bond_kurs)
    \/ OpenWindow
    \/ \E la \in PanelLoanAmounts, lt \in PanelLoanTypes, ty \in {1, MaxTerm},
          io \in {0, MaxTerm}, inst \in PanelInstitutions, bond_kurs \in {980, 1000} :
            Calculate(400 * DKK, la, lt, ty, io, inst, bond_kurs)
    \/ \E path \in {"", "mortgage_report.txt"}, write_ok \in BOOLEAN :
            Export(path, write_ok)

Spec == Init /\ [][Next]_vars

----------------------------------------------------------------------------
(***************************************************************************)
(* Properties of the amortization schedule                                 *)
(***************************************************************************)
\* The last call built the schedule ret[1] of the LoanParams held[1].
Built == call = "build_amortization_schedule"

\* A loan configuration of positive amounts (validation has accepted every
\* LoanParams that is held).
Valid(p) == p.loan_amount_dkk > 0 /\ p.property_value_dkk > 0

C3_TotalIsSum ==
    (Built /\ Valid(held[1])) =>
        \A m \in DOMAIN ret[1] :
            ret[1][m].total_payment =
                ret[1][m].bond_interest + ret[1][m].bidragssats + ret[1][m].principal

\* C4 (as amended): for every valid configuration, from each month after the
\* interest-only window to the next the opening balance does not increase,
\* and it decreases strictly when the month's recorded principal is
\* positive; the first month of the schedule is included only when the loan
\* principal is a whole number of ore.
C4_BalanceDecreases ==
    (Built /\ Valid(held[1])) =>
        \A m \in held[1].io_years * 12 + 1 .. Len(ret[1]) - 1 :
            (m >= 2 \/ held[1].loan_amount_dkk % Ore = 0) =>
                /\ ret[1][m + 1].balance <= ret[1][m].balance
                /\ ret[1][m].principal > 0 =>
                       ret[1][m + 1].balance < ret[1][m].balance

\* An annuity month has repaid a positive recorded amount and the next
\* month opens lower.
C4_Witness ==
    /\ Built
    /\ Valid(held[1])
    /\ held[1].io_years = 0
    /\ ret[1][1].principal > 0
    /\ ret[1][2].balance < ret[1][1].balance

\* C4 as stated: after the interest-only window the opening balance
\* decreases strictly from each month to the next.
C4_Original ==
    (Built /\ Valid(held[1])) =>
        \A m \in held[1].io_years * 12 + 1 .. Len(ret[1]) - 1 :
            ret[1][m + 1].balance < ret[1][m].balance

\* C5: for every accepted configuration the schedule has term_years * 12
\* rows and the row at position k carries month index k.
C5_ScheduleLength ==
    Built =>
        /\ Len(ret[1]) = held[1].term_years * 12
        /\ \A k \in DOMAIN ret[1] : ret[1][k].month = k

\* A schedule of the longest term with an interest-only period was built.
C5_Witness ==
    /\ Built
    /\ held[1].term_years = MaxTerm
    /\ held[1].io_years > 0
    /\ Len(ret[1]) = MaxTerm * 12
    /\ ret[1][MaxTerm * 12].month = MaxTerm * 12

(***************************************************************************)
(* Properties of validation, analysis and comparison                       *)
(***************************************************************************)
\* The inputs break a rule of the validation contract: LTV above 80 %
\* (for a property value the ratio is defined for), a term that is not
\* positive, interest-only years outside [0, term), an unknown loan type or
\* an unknown institution.
BreaksContract(pv, la, lt, ty, io, inst) ==
    \/ pv # 0 /\ RatioGT(la, pv, 4, 5)
    \/ ty <= 0
    \/ io < 0
    \/ io >= ty
    \/ lt \notin Range(LOAN_TYPES)
    \/ inst \notin Range(INSTITUTIONS)

\* The calls that compute on a LoanParams object.
Computations == {"build_amortization_schedule", "analyze_loan"}

C7_AcceptedInRange ==
    (call = "LoanParams" /\ raised = "none") =>
        /\ held[1].loan_amount_dkk > 0
        /\ held[1].property_value_dkk > 0
        /\ ~RatioGT(held[1].loan_amount_dkk, held[1].property_value_dkk, 4, 5)
        /\ 0 <= held[1].io_years
        /\ held[1].io_years < held[1].term_years
        /\ held[1].term_years > 0

\* C8 as stated, for the valid configurations: analyze_loan returns a
\* LoanResult for every LoanParams that validation accepted; it never raises.
C8_AnalyzeReturns ==
    (call = "analyze_loan" /\ Valid(held[1])) => (raised = "none" /\ Len(ret) = 1)

\* compare_institutions was called with inputs that make a valid
\* configuration of positive amounts with every institution.
ComparedValid ==
    /\ call = "compare_institutions"
    /\ args[1] > 0
    /\ args[2] > 0
    /\ \A i \in DOMAIN INSTITUTIONS :
           LoanParamsError(args[1], args[2], args[3], args[4], args[5],
                           INSTITUTIONS[i]) = "none"

\* The position of an institution in INSTITUTIONS.
Position(institution) ==
    CHOOSE i \in DOMAIN INSTITUTIONS : INSTITUTIONS[i] = institution

\* C9 as stated: compare_institutions returns one RankedResult per
\* institution, each institution once, with rank = position in the list
\* (1..N) and total lifetime cost non-decreasing along the list.
C9_RankedList ==
    ComparedValid =>
        /\ raised = "none"
        /\ Len(ret) = 1
        /\ Len(ret[1]) = Len(INSTITUTIONS)
        /\ {ret[1][i].institution : i \in DOMAIN ret[1]} = Range(INSTITUTIONS)
        /\ \A i \in DOMAIN ret[1] : ret[1][i].rank = i
        /\ \A i \in 1 .. Len(ret[1]) - 1 :
               ret[1][i].total_lifetime_cost <= ret[1][i + 1].total_lifetime_cost

\* C10 as stated: in the list compare_institutions returns, institutions of
\* equal total lifetime cost stand in their order in INSTITUTIONS, and an
\* institution of smaller cost has the smaller rank.
C10_StableTies ==
    ComparedValid =>
        /\ raised = "none"
        /\ Len(ret) = 1
        /\ \A i, j \in DOMAIN ret[1] :
               /\ (ret[1][i].total_lifetime_cost < ret[1][j].total_lifetime_cost)
                      => ret[1][i].rank < ret[1][j].rank
               /\ (/\ ret[1][i].total_lifetime_cost = ret[1][j].total_lifetime_cost
                   /\ Position(ret[1][i].institution) < Position(ret[1][j].institution))
                      => ret[1][i].rank < ret[1][j].rank

(***************************************************************************)
(* Properties of the breakeven calculation                                 *)
(***************************************************************************)
\* C11: compute_breakeven_months(current, alternative) takes monthly_saving
\* = current's month-1 total payment minus alternative's month-1 total
\* payment and switching_cost = alternative's one-time cost; it returns
\* infinity when monthly_saving <= 0 and otherwise switching_cost /
\* monthly_saving rounded to 1 decimal (a finite number within half a tenth
\* of the quotient).
C11_Breakeven ==
    call = "compute_breakeven_months" =>
        LET monthly_saving == args[1].result.schedule[1].total_payment
                              - args[2].result.schedule[1].total_payment
            switching_cost == args[2].one_time_costs
        IN  /\ raised = "none"
            /\ monthly_saving <= 0 => ret[1].inf
            /\ monthly_saving > 0 =>
                   /\ ~ret[1].inf
                   /\ 2 * Abs(ret[1].tenths * monthly_saving - 10 * switching_cost)
                          <= monthly_saving

\* A switch that saves 3 DKK a month against a one-time cost of 6850.39 DKK
\* breaks even after 2283.5 months.
C11_Witness ==
    /\ call = "compute_breakeven_months"
    /\ args[1].result.schedule[1].total_payment = 83 * DKK
    /\ args[2].result.schedule[1].total_payment = 80 * DKK
    /\ args[2].one_time_costs = 6850 * DKK + 39 * Ore
    /\ ret[1] = Months(22835)

\* rank_with_breakeven was called with the five parameters of its signature
\* and a loan shape that validation accepts with every institution.
Ranked ==
    /\ call = "rank_with_breakeven"
    /\ args[6] = << >>
    /\ \A i \in DOMAIN INSTITUTIONS :
           LoanParamsError(args[1], args[2], args[3], args[4], args[5],
                           INSTITUTIONS[i]) = "none"

\* C12 as stated: for every loan shape that validation accepts,
\* rank_with_breakeven returns a breakeven map whose every value is 0, a
\* positive finite number or infinity, never negative.
C12_NonNegative ==
    Ranked =>
        /\ raised = "none"
        /\ Len(ret) = 1
        /\ \A institution \in DOMAIN ret[1][2] :
               ret[1][2][institution].inf \/ ret[1][2][institution].tenths >= 0

\* C13 as stated: the breakeven map rank_with_breakeven returns has exactly
\* one entry per institution; the rank-1 institution maps to 0.0 and every
\* other institution r to compute_breakeven_months(r, rank-1 institution).
C13_BreakevenMap ==
    Ranked =>
        /\ raised = "none"
        /\ Len(ret) = 1
        /\ DOMAIN ret[1][2] = Range(INSTITUTIONS)
        /\ ret[1][2][ret[1][1][1].institution] = Months(0)
        /\ \A i \in 2 .. Len(ret[1][1]) :
               ret[1][2][ret[1][1][i].institution]
                   = compute_breakeven_months(ret[1][1][i], ret[1][1][1])

\* C14 as stated: called with a loan shape that validation accepts and the
\* bond market price, rank_with_breakeven returns a ranked list in which
\* every institution's configuration carries the property value, principal,
\* product, term, interest-only years and bond price of the call and its own
\* institution.
C14_SharedShape ==
    (/\ call = "rank_with_breakeven"
     /\ Len(args[6]) = 1
     /\ \A i \in DOMAIN INSTITUTIONS :
            LoanParamsError(args[1], args[2], args[3], args[4], args[5],
                            INSTITUTIONS[i]) = "none") =>
        /\ raised = "none"
        /\ Len(ret) = 1
        /\ \A i \in DOMAIN ret[1][1] :
               /\ ret[1][1][i].result.params.property_value_dkk = args[1]
               /\ ret[1][1][i].result.params.loan_amount_dkk = args[2]
               /\ ret[1][1][i].result.params.loan_type = args[3]
               /\ ret[1][1][i].result.params.term_years = args[4]
               /\ ret[1][1][i].result.params.io_years = args[5]
               /\ ret[1][1][i].result.params.bond_kurs = args[6][1][2]
               /\ ret[1][1][i].result.params.institution = ret[1][1][i].institution

(***************************************************************************)
(* Properties of the cost, bracket and fee functions                       *)
(***************************************************************************)
\* C16: for a principal P >= 0, compute_one_time_costs(P, price) is the flat
\* registration fee + registration rate * P + establishment fee + spread
\* rate * P when price >= 100, and that amount plus (100 - price) / 100 * P
\* when price < 100.
C16_OneTimeCosts ==
    (call = "compute_one_time_costs" /\ args[1] >= 0) =>
        LET P     == args[1]
            base  == TINGLYSNING_RATE * P + KURSKAERING_RATE * P
            fixed == (TINGLYSNING_FLAT_DKK + ESTABLISHMENT_FEE_DKK) * DKK
        IN  (ret[1][1] - fixed) * RateUnit + ret[1][2] =
                IF args[2] >= 1000 THEN base
                ELSE base + (1000 - args[2]) * 10 * P

\* The one-time costs of 320 DKK at price 98: 6850 DKK + 1.95 % + 2 % of
\* 320 DKK = 6862.64 DKK.
C16_Witness ==
    /\ call = "compute_one_time_costs"
    /\ args = <<320 * DKK, 980>>
    /\ ret[1] = <<6862 * DKK + 64 * Ore, 0>>

\* C17: get_ltv_bracket maps LTV < 0.40 to the low bracket, 0.40 <= LTV <
\* 0.60 to the mid bracket and LTV >= 0.60 to the high bracket; 0.40 is mid,
\* 0.60 and 0.80 are high.
C17_Brackets ==
    call = "get_ltv_bracket" =>
        LET l == args[1]
        IN  /\ 5 * l.num < 2 * l.den => ret[1] = "bracket_0_40"
            /\ (5 * l.num >= 2 * l.den /\ 5 * l.num < 3 * l.den) =>
                   ret[1] = "bracket_40_60"
            /\ 5 * l.num >= 3 * l.den => ret[1] = "bracket_60_80"

\* The boundary 0.40 was looked up and came out in the mid bracket.
C17_Witness ==
    /\ call = "get_ltv_bracket"
    /\ args[1] = [num |-> 2, den |-> 5]
    /\ ret[1] = "bracket_40_60"

\* The total of the bidragssats recorded over the schedule of the loan shape
\* p with its interest-only years set to io_years.
LifetimeBidragssats(p, io_years) ==
    Total(build_amortization_schedule([p EXCEPT !.io_years = io_years]), "bidragssats")

\* The bracket of the origination LTV of the LoanParams p, read off the
\* boundaries 0.40 and 0.60.
TableBracket(p) ==
    IF 5 * p.loan_amount_dkk >= 3 * p.property_value_dkk THEN "bracket_60_80"
    ELSE IF 5 * p.loan_amount_dkk >= 2 * p.property_value_dkk THEN "bracket_40_60"
    ELSE "bracket_0_40"

\* The annual bidragssats rate of month m for p, read off the rate table:
\* the bracket's annuity rate, plus its io_premium in the interest-only
\* months.
TableRate(p, m) ==
    IF m <= p.io_years * 12
    THEN BIDRAGSSATS[p.institution][TableBracket(p)].annuity
         + BIDRAGSSATS[p.institution][TableBracket(p)].io_premium
    ELSE BIDRAGSSATS[p.institution][TableBracket(p)].annuity

\* One twelfth of the io_premium on the loan principal is at least 0.01 DKK.
PremiumRegisters(p) ==
    p.loan_amount_dkk * BIDRAGSSATS[p.institution][TableBracket(p)].io_premium
        >= 12 * Ore * RateUnit

Profit(fp) ==
    (fp.monthly_rental_income_foreign - fp.monthly_expenses_foreign) * PctDen
        - fp.foreign_mortgage_balance * fp.foreign_mortgage_rate

C27_PrincipalBounds ==
    (Built /\ Valid(held[1])) =>
        \A m \in DOMAIN ret[1] :
            /\ 0 <= ret[1][m].principal
            /\ ret[1][m].principal <= ret[1][m].balance
            /\ ret[1][m].balance >= 0
            /\ RoundBalance(ret[1][m].balance, <<ret[1][m].principal, 0>>) >= 0

\* The last month of a repayment loan repays exactly its opening balance:
\* the payment less the interest would have repaid more.
C27_Witness ==
    /\ Built
    /\ Valid(held[1])
    /\ held[1].io_years = 0
    /\ LET last == ret[1][Len(ret[1])]
       IN  /\ last.principal = last.balance
           /\ last.balance > 0
           /\ Round2(monthly_annuity_payment(held[1].loan_amount_dkk,
                                             BOND_RATES[held[1].loan_type],
                                             Len(ret[1])))
                  > last.bond_interest + last.principal

\* The schedule of the configuration p at the institution inst.
ScheduleAt(p, inst) == build_amortization_schedule([p EXCEPT !.institution = inst])

\* The opening balances, bond interests and principals of two schedules are
\* the same month by month.
SameAmortization(s, t) ==
    /\ Len(s) = Len(t)
    /\ \A m \in DOMAIN s :
           /\ s[m].balance = t[m].balance
           /\ s[m].bond_interest = t[m].bond_interest
           /\ s[m].principal = t[m].principal

\* The annuity payment fixed before the loop, in fine units.
FixedPayment(p) ==
    monthly_annuity_payment(p.loan_amount_dkk, BOND_RATES[p.loan_type],
                            (p.term_years - p.io_years) * 12)

\* C28: the bidragssats takes no part in the amortization.  In every month
\* after the interest-only window in which the fixed annuity payment less
\* the month's bond interest does not exceed the balance, recorded bond
\* interest plus recorded principal is the fixed payment to within one ore,
\* and the schedule of the same loan shape at any other institution has the
\* same opening balance, bond interest and principal in every month.
C28_BidragssatsIsolation ==
    (Built /\ Valid(held[1])) =>
        /\ \A m \in held[1].io_years * 12 + 1 .. Len(ret[1]) :
               (FixedPayment(held[1]) - ret[1][m].balance * BOND_RATES[held[1].loan_type]
                        + RateDen - 1) \div RateDen <= ret[1][m].balance
                   => Abs((ret[1][m].bond_interest + ret[1][m].principal) * RateDen
                          - FixedPayment(held[1])) <= Ore * RateDen
        /\ \A inst \in Range(INSTITUTIONS) :
               SameAmortization(ret[1], ScheduleAt(held[1], inst))

\* A repayment loan at Totalkredit whose first month splits the fixed
\* payment into interest and principal, and whose bidragssats differs from
\* the one Nordea Kredit charges for the same loan.
C28_Witness ==
    /\ Built
    /\ Valid(held[1])
    /\ held[1].io_years = 0
    /\ held[1].institution = "Totalkredit"
    /\ ret[1][1].principal > 0
    /\ ret[1][1].bond_interest > 0
    /\ ret[1][1].bidragssats # ScheduleAt(held[1], "Nordea Kredit")[1].bidragssats

(***************************************************************************)
(* Properties of the effective annual rate                                 *)
(***************************************************************************)
\* A loan of the standard shape: the 30-year fixed product without
\* interest-only years at Totalkredit, the principal in the loan-to-value
\* bracket of 3,000,000 on 4,000,000 (above 60%, at most 80%).
StandardLoan(p) ==
    /\ Valid(p)
    /\ p.loan_type = "fixed_30y"
    /\ p.io_years = 0
    /\ p.institution = "Totalkredit"
    /\ 5 * p.loan_amount_dkk > 3 * p.property_value_dkk
    /\ 5 * p.loan_amount_dkk <= 4 * p.property_value_dkk

\* 0.04 < a < 0.07 for a rate a of the float model.
InAopBand(a) == a.e = -5 /\ a.m > 4000 /\ a.m < 7000

\* C26 as stated: for a loan of the standard shape analyze_loan returns an
\* effective annual rate strictly between 4% and 7%.
C26_AopBand ==
    (call = "analyze_loan" /\ StandardLoan(held[1])) =>
        /\ raised = "none"
        /\ InAopBand(ret[1].aop)

\* C29: compute_aop ends its Newton loop within 200 passes and returns the
\* annualised rate of its last iterate; it never raises an error.
C29_AlwaysReturns ==
    call = "compute_aop" =>
        /\ raised = "none"
        /\ ret[1].iterations <= 200

(***************************************************************************)
(* Properties of the main window                                           *)
(***************************************************************************)
\* The input panel has emitted params_ready last: _calculate ran and left
\* the error label empty.
ParamsReadyEmitted == call = "_calculate" /\ window[1].error_label = ""

\* The results the window has stored, of its three result attributes.
Stored(w) ==
    {name \in {"loan_result", "ranked", "breakeven"} : w[name] # << >>}

\* C30 as stated: the export action is disabled when the window is built
\* and enabled after a params_ready computation; whenever export is enabled
\* the loan result, the ranked list and the breakeven map are all stored;
\* the three are stored together or not at all; and no report has been
\* written while no loan result is stored.
C30_ExportGate ==
    WindowOpen =>
        /\ call = "MortgageWindow" => ~window[1].export_enabled
        /\ ParamsReadyEmitted => window[1].export_enabled
        /\ window[1].export_enabled
               => Stored(window[1]) = {"loan_result", "ranked", "breakeven"}
        /\ Stored(window[1]) \in {{}, {"loan_result", "ranked", "breakeven"}}
        /\ window[1].loan_result = << >> => window[1].written = {}

====
